---- MODULE Spec2Model ----
(***************************************************************************)
(* CrazyRLBaseParallelEnv (momadm_benchmarks/envs/crazyrl/crazyRL_base.py) *)
(* as a state machine: the fields of one environment instance, and one     *)
(* action per public method (reset, step, render, close).                  *)
(*                                                                         *)
(* Abstractions:                                                           *)
(*  - a position (a 3-vector of floats) is a point of the finite set Pos;  *)
(*  - the environment is constructed for the two agents of AgentsNames,    *)
(*    at the positions InitFlyingPos, with one target at TargetLocation;   *)
(*  - the subclass hooks (_transition_state, _compute_obs, ...) are all    *)
(*    overridden (implemented = TRUE), and then return values chosen       *)
(*    nondeterministically, or not overridden, and then raise              *)
(*    NotImplementedError as the base class does;                          *)
(*  - pygame is a display that is initialised or not; the drawing calls    *)
(*    of a frame made while it is not initialised end in an error of the   *)
(*    graphics library (written "pygame.error") and show nothing, and      *)
(*    quitting it while it is not initialised has no effect.               *)
(* lastOp, error and trace observe the last call: its name, the exception  *)
(* it ended with ("none" when it returned), and the hooks and draws it     *)
(* made, in order.  Under SpecIO, actions and terminations also observe    *)
(* the keys of the action mapping given to the last step and the agents    *)
(* its termination flags were true for; under Spec they are not recorded.  *)
(***************************************************************************)
EXTENDS Integers, Sequences, FiniteSets, TLC

\* Bounds of the model.
MaxPos == 1
MaxTimestep == 3
MaxReward == 1

Pos == 0..MaxPos

Range(s) == {s[i] : i \in DOMAIN s}

\* The constructor's arguments.
AgentsNames == <<"agent_0", "agent_1">>
AgentSet == Range(AgentsNames)
UnknownAgent == "agent_x"
TargetIds == {"target"}
InitFlyingPos == [a \in AgentSet |-> IF a = "agent_0" THEN 0 ELSE MaxPos]
TargetLocation == [t \in TargetIds |-> MaxPos]

RenderModes == {"human", "real"}

VARIABLES
    render_mode,            \* "None", "human" or "real"
    implemented,            \* TRUE iff the class overrides the hooks
    possible_agents,
    agents,
    timestep,
    _agent_location,
    _previous_location,
    _init_flying_pos,
    _init_target_location,
    _target_location,
    _previous_target,
    window,                 \* "unset" (no such attribute), "None", "Surface"
    display,                \* TRUE iff the pygame display is initialised
    lastOp,
    error,
    trace,
    actions,
    terminations,
    space_cache,            \* the lru_cache of the three space accessors
    ret,                    \* the agent and the value of the last accessor call
    wrapped                 \* the last step through the LinearizeReward wrapper

vars == <<render_mode, implemented, possible_agents, agents, timestep,
          _agent_location, _previous_location, _init_flying_pos,
          _init_target_location, _target_location, _previous_target,
          window, display, lastOp, error, trace, actions, terminations,
          space_cache, ret, wrapped>>

config == <<render_mode, implemented, _init_flying_pos, _init_target_location>>

Event(name, ts, loc) == [ev |-> name, ts |-> ts, loc |-> loc]

\* The three memoized accessors, and the agents they are called for.
Accessors == {"observation_space", "action_space", "reward_space"}
NoReturn == [agent |-> "none", value |-> "none"]
EmptyCache == [acc \in Accessors |-> [a \in AgentSet |-> "none"]]

\* No step has gone through a reward wrapper.
NoWrapper == [phase |-> "none"]

\* What a call that is not an accessor call leaves of the accessors' state.
NoAccessorCall == space_cache' = space_cache /\ ret' = NoReturn

----------------------------------------------------------------------------
\* __init__

InitWindow(mode) == IF mode = "human" THEN "None" ELSE "unset"

Init ==
    /\ render_mode \in {"None"} \cup RenderModes
    /\ implemented \in BOOLEAN
    /\ _init_flying_pos = InitFlyingPos
    /\ _init_target_location = TargetLocation
    /\ _agent_location = _init_flying_pos
    /\ _previous_location = _init_flying_pos
    /\ _target_location = _init_target_location
    /\ _previous_target = _init_target_location
    /\ possible_agents = AgentsNames
    /\ timestep = 0
    /\ agents = <<>>
    /\ window = InitWindow(render_mode)
    /\ display = FALSE
    /\ lastOp = "init"
    /\ error = "none"
    /\ trace = <<>>
    /\ actions = {}
    /\ terminations = {}
    /\ space_cache = EmptyCache
    /\ ret = NoReturn
    /\ wrapped = NoWrapper

----------------------------------------------------------------------------
\* Subclass hooks: the exception a hook call ends with.

HookError(impl) == IF impl THEN "none" ELSE "NotImplementedError"

\* The hooks called one after the other from position i of hs, each seeing
\* timestep ts and positions loc, up to and including the first that raises.
RECURSIVE HookEvents(_, _, _, _, _)
HookEvents(hs, i, impl, ts, loc) ==
    IF i > Len(hs) THEN <<>>
    ELSE IF ~impl THEN <<Event(hs[i], ts, loc)>>
    ELSE <<Event(hs[i], ts, loc)>> \o HookEvents(hs, i + 1, impl, ts, loc)

----------------------------------------------------------------------------
\* _render_frame: the window, the display, the exception and the events.
\* The window is made when self.window is None; the drawing calls of lines
\* 242-278 follow in any case, on a live display ("frame") or on one that
\* close() has released ("frame_on_released").

RenderFrame(mode, win, disp, ts, loc) ==
    IF win = "unset"
    THEN [window |-> win, display |-> disp, error |-> "AttributeError",
          events |-> <<>>]
    ELSE LET needInit == win = "None" /\ mode = "human"
             win1 == IF needInit THEN "Surface" ELSE win
             disp1 == IF needInit THEN TRUE ELSE disp
             inited == IF needInit THEN <<Event("init_window", ts, loc)>>
                       ELSE <<>>
         IN IF disp1
            THEN [window |-> win1, display |-> disp1, error |-> "none",
                  events |-> inited \o <<Event("frame", ts, loc)>>]
            ELSE [window |-> win1, display |-> disp1,
                  error |-> "pygame.error",
                  events |-> inited
                             \o <<Event("frame_on_released", ts, loc)>>]

\* render(): a frame only in human mode.
RenderCall(mode, win, disp, ts, loc) ==
    IF mode = "human" THEN RenderFrame(mode, win, disp, ts, loc)
    ELSE [window |-> win, display |-> disp, error |-> "none",
          events |-> <<>>]

----------------------------------------------------------------------------
\* reset()

ResetTimestep == 0

\* A reset that rebuilds the active agents in the wrong order.
MutResetAgents(pa) == [i \in DOMAIN pa |-> pa[Len(pa) + 1 - i]]

\* A reset that activates an agent that is not a possible agent.
MutResetAgentsExtra(pa) == Append(pa, UnknownAgent)

ResetAgents(pa) == pa

\* A reset that never restores the positions.
MutResetLocations(mode, init, cur) == cur

ResetLocations(mode, init, cur) == IF mode = "human" THEN init ELSE cur

ResetHooks == <<"obs", "info">>

reset ==
    LET loc1 == ResetLocations(render_mode, _init_flying_pos, _agent_location)
        prev1 == ResetLocations(render_mode, _init_flying_pos,
                                _previous_location)
        hooks == HookEvents(ResetHooks, 1, implemented, ResetTimestep, loc1)
        hookErr == HookError(implemented)
        rf == IF hookErr = "none" /\ render_mode = "human"
              THEN RenderFrame(render_mode, window, display, ResetTimestep,
                               loc1)
              ELSE [window |-> window, display |-> display,
                    error |-> hookErr, events |-> <<>>]
    IN /\ timestep' = ResetTimestep
       /\ agents' = ResetAgents(possible_agents)
       /\ _target_location' = _init_target_location
       /\ _previous_target' = _init_target_location
       /\ _agent_location' = loc1
       /\ _previous_location' = prev1
       /\ window' = rf.window
       /\ display' = rf.display
       /\ error' = rf.error
       /\ trace' = hooks \o rf.events
       /\ lastOp' = "reset"
       /\ actions' = {}
       /\ terminations' = {}
       /\ NoAccessorCall
       /\ UNCHANGED wrapped
       /\ UNCHANGED <<config, possible_agents>>

----------------------------------------------------------------------------
\* step(actions)

\* A step that forgets to count itself.
MutStepTimestep(t) == t

StepTimestep(t) == t + 1

\* A shift that runs after the new positions were installed.
MutShiftPrevious(cur, new) == new

ShiftPrevious(cur, new) == cur

\* Rewards computed before the termination and truncation flags.
MutStepHooks == <<"reward", "terminated", "truncation", "obs", "info">>

StepHooks == <<"terminated", "truncation", "reward", "obs", "info">>

\* Lines 186-190: render, then the transition, then the shift.
StepMove(mode, impl, win, disp, ts, cur, prev, new) ==
    IF mode # "human"
    THEN [window |-> win, display |-> disp, error |-> "none",
          events |-> <<>>, loc |-> cur, prev |-> prev]
    ELSE LET rf == RenderCall(mode, win, disp, ts, cur)
         IN IF rf.error # "none"
            THEN [window |-> rf.window, display |-> rf.display,
                  error |-> rf.error, events |-> rf.events,
                  loc |-> cur, prev |-> prev]
            ELSE IF ~impl
            THEN [window |-> rf.window, display |-> rf.display,
                  error |-> HookError(impl),
                  events |-> rf.events \o <<Event("transition", ts, cur)>>,
                  loc |-> cur, prev |-> prev]
            ELSE [window |-> rf.window, display |-> rf.display,
                  error |-> "none",
                  events |-> rf.events \o <<Event("transition", ts, cur)>>,
                  loc |-> new, prev |-> ShiftPrevious(cur, new)]

step(acts, new_locations, terminated, observed) ==
    /\ timestep < MaxTimestep
    /\ LET ts1 == StepTimestep(timestep)
           mv == StepMove(render_mode, implemented, window, display, ts1,
                          _agent_location, _previous_location, new_locations)
           hooks == IF mv.error = "none"
                    THEN HookEvents(StepHooks, 1, implemented, ts1, mv.loc)
                    ELSE <<>>
           err == IF mv.error = "none" THEN HookError(implemented)
                  ELSE mv.error
       IN /\ timestep' = ts1
          /\ _agent_location' = mv.loc
          /\ _previous_location' = mv.prev
          /\ window' = mv.window
          /\ display' = mv.display
          /\ error' = err
          /\ trace' = mv.events \o hooks
          /\ lastOp' = "step"
          /\ actions' = IF observed THEN acts ELSE {}
          /\ terminations' = IF observed /\ err = "none" THEN terminated
                             ELSE {}
          /\ NoAccessorCall
          /\ UNCHANGED wrapped
          /\ UNCHANGED <<config, possible_agents, agents, _target_location,
                         _previous_target>>

----------------------------------------------------------------------------
\* render()

render ==
    LET rf == RenderCall(render_mode, window, display, timestep,
                         _agent_location)
    IN /\ window' = rf.window
       /\ display' = rf.display
       /\ error' = rf.error
       /\ trace' = rf.events
       /\ lastOp' = "render"
       /\ actions' = {}
       /\ terminations' = {}
       /\ NoAccessorCall
       /\ UNCHANGED wrapped
       /\ UNCHANGED <<config, possible_agents, agents, timestep,
                      _agent_location, _previous_location, _target_location,
                      _previous_target>>

----------------------------------------------------------------------------
\* close(): pygame.display.quit() and pygame.quit() when a window was made.
\* The two calls release the display if it is initialised (released) and
\* have no effect otherwise.

\* A close that reads self.window whatever the render mode: the attribute
\* exists only in human mode.
MutClose(mode, win, disp) ==
    IF win = "unset"
    THEN [display |-> disp, released |-> FALSE, error |-> "AttributeError"]
    ELSE IF win # "None"
    THEN [display |-> FALSE, released |-> disp, error |-> "none"]
    ELSE [display |-> disp, released |-> FALSE, error |-> "none"]

Close(mode, win, disp) ==
    IF mode = "human"
    THEN IF win # "None"
         THEN [display |-> FALSE, released |-> disp, error |-> "none"]
         ELSE [display |-> disp, released |-> FALSE, error |-> "none"]
    ELSE [display |-> disp, released |-> FALSE, error |-> "none"]

close ==
    LET c == Close(render_mode, window, display)
    IN /\ display' = c.display
       /\ error' = c.error
       /\ trace' = IF c.released
                   THEN <<Event("release", timestep, _agent_location)>>
                   ELSE <<>>
       /\ lastOp' = "close"
       /\ actions' = {}
       /\ terminations' = {}
       /\ NoAccessorCall
       /\ UNCHANGED wrapped
       /\ UNCHANGED <<config, possible_agents, agents, timestep,
                      _agent_location, _previous_location, _target_location,
                      _previous_target, window>>

----------------------------------------------------------------------------
\* state(): _compute_obs() is called once for each possible agent.

StateHooks(pa) == [i \in DOMAIN pa |-> "obs"]

state ==
    /\ error' = HookError(implemented)
    /\ trace' = HookEvents(StateHooks(possible_agents), 1, implemented,
                           timestep, _agent_location)
    /\ lastOp' = "state"
    /\ actions' = {}
    /\ terminations' = {}
    /\ NoAccessorCall
    /\ UNCHANGED wrapped
    /\ UNCHANGED <<config, possible_agents, agents, timestep,
                   _agent_location, _previous_location, _target_location,
                   _previous_target, window, display>>

----------------------------------------------------------------------------
\* observation_space(agent), action_space(agent), reward_space(agent):
\* functools.lru_cache(maxsize=None) around a call of the hook of the same
\* name with a leading underscore.

\* The hooks the base class itself defines (each raises NotImplementedError).
BaseHooks == {"_observation_space", "_action_space", "_compute_obs",
              "_transition_state", "_compute_reward", "_compute_terminated",
              "_compute_truncation", "_compute_info"}

HookOf(acc) ==
    CASE acc = "observation_space" -> "_observation_space"
      [] acc = "action_space" -> "_action_space"
      [] acc = "reward_space" -> "_reward_space"

\* Calling hook h of a class that does or does not override the hooks: a
\* hook that is neither overridden nor defined by the base class is a
\* missing attribute.
CallHook(h, impl) ==
    IF impl THEN "none"
    ELSE IF h \in BaseHooks THEN "NotImplementedError"
    ELSE "AttributeError"

\* The values a space hook may return.
SpaceValues == {"space_a", "space_b"}

\* An accessor that calls its hook every time.
MutCachedCall(cached, h, impl, v) ==
    LET err == CallHook(h, impl)
    IN [value |-> IF err = "none" THEN v ELSE "none",
        store |-> IF err = "none" THEN v ELSE cached,
        error |-> err,
        called |-> err # "AttributeError"]

\* One call through lru_cache: a hit returns the stored value; a miss calls
\* the hook, which returns v, and stores the result unless the call raised.
CachedCall(cached, h, impl, v) ==
    IF cached # "none"
    THEN [value |-> cached, store |-> cached, error |-> "none",
          called |-> FALSE]
    ELSE LET err == CallHook(h, impl)
         IN [value |-> IF err = "none" THEN v ELSE "none",
             store |-> IF err = "none" THEN v ELSE cached,
             error |-> err,
             called |-> err # "AttributeError"]

space(acc, agent, v) ==
    LET c == CachedCall(space_cache[acc][agent], HookOf(acc), implemented, v)
    IN /\ space_cache' = [space_cache EXCEPT ![acc][agent] = c.store]
       /\ ret' = [agent |-> agent, value |-> c.value]
       /\ error' = c.error
       /\ trace' = IF c.called
                   THEN <<Event(HookOf(acc), timestep, _agent_location)>>
                   ELSE <<>>
       /\ lastOp' = acc
       /\ actions' = {}
       /\ terminations' = {}
       /\ UNCHANGED wrapped
       /\ UNCHANGED <<config, possible_agents, agents, timestep,
                      _agent_location, _previous_location, _target_location,
                      _previous_target, window, display>>

----------------------------------------------------------------------------

ActionKeys == SUBSET (AgentSet \cup {UnknownAgent})

StepAny ==
    \E acts \in ActionKeys, nl \in [AgentSet -> Pos], t \in SUBSET AgentSet :
        step(acts, nl, t, FALSE)

StepObserved ==
    \E acts \in ActionKeys, nl \in [AgentSet -> Pos], t \in SUBSET AgentSet :
        step(acts, nl, t, TRUE)

Next == reset \/ StepAny \/ render \/ close

Spec == Init /\ [][Next]_vars

NextIO == reset \/ StepObserved \/ render \/ close

SpecIO == Init /\ [][NextIO]_vars

\* The accessors and state(), interleaved with the lifecycle calls; the
\* steps are those of a driver that gives one action per active agent, in
\* an episode whose transition leaves every agent where it is.
StepStill == step(Range(agents), _agent_location, {}, FALSE)

SpaceAny ==
    \E acc \in Accessors, a \in AgentSet, v \in SpaceValues : space(acc, a, v)

NextSpaces == reset \/ StepStill \/ render \/ close \/ state \/ SpaceAny

SpecSpaces == Init /\ [][NextSpaces]_vars

----------------------------------------------------------------------------
\* Construction as a call of its own: before it no instance exists
\* (render_mode = "unset"; the other fields hold placeholders), and a
\* construction that raises leaves the caller without an instance.

RequestedModes == {"None", "human", "real", "rgb_array"}

\* A constructor that accepts any render mode.
MutValidRenderMode(mode) == TRUE

\* The assertion of line 119.
ValidRenderMode(mode) == mode = "None" \/ mode \in RenderModes

NoInstance ==
    /\ render_mode = "unset"
    /\ implemented \in BOOLEAN
    /\ _init_flying_pos = InitFlyingPos
    /\ _init_target_location = TargetLocation
    /\ _agent_location = InitFlyingPos
    /\ _previous_location = InitFlyingPos
    /\ _target_location = TargetLocation
    /\ _previous_target = TargetLocation
    /\ possible_agents = <<>>
    /\ timestep = 0
    /\ agents = <<>>
    /\ window = "unset"
    /\ display = FALSE
    /\ lastOp = "new"
    /\ error = "none"
    /\ trace = <<>>
    /\ actions = {}
    /\ terminations = {}
    /\ space_cache = EmptyCache
    /\ ret = NoReturn

InitNew == NoInstance /\ wrapped = NoWrapper

Available == render_mode # "unset"

construct(mode) ==
    /\ ~Available
    /\ lastOp' = "__init__"
    /\ trace' = <<>>
    /\ actions' = {}
    /\ terminations' = {}
    /\ NoAccessorCall
    /\ UNCHANGED wrapped
    /\ UNCHANGED <<implemented, _init_flying_pos, _init_target_location,
                   _agent_location, _previous_location, _target_location,
                   _previous_target, timestep, agents, display>>
    /\ IF ValidRenderMode(mode)
       THEN /\ render_mode' = mode
            /\ possible_agents' = AgentsNames
            /\ window' = InitWindow(mode)
            /\ error' = "none"
       ELSE /\ error' = "AssertionError"
            /\ UNCHANGED <<render_mode, possible_agents, window>>

ConstructAny == \E mode \in RequestedModes : construct(mode)

NextNew ==
    \/ ConstructAny
    \/ Available /\ reset
    \/ Available /\ StepAny
    \/ Available /\ render
    \/ Available /\ close

SpecNew == InitNew /\ [][NextNew]_vars

----------------------------------------------------------------------------
\* The LinearizeReward wrapper of parallel_test around a parallel
\* environment of three agents with three reward components.  One step of
\* the wrapped environment returns, for its active agents, reward vectors
\* and termination and truncation flags; the wrapper's step returns what it
\* makes of them.  Weights are in tenths ([0.2, 0.6, 0.2] is <<2, 6, 2>>),
\* so a linearized reward is in tenths of a reward unit.

WrapperAgents == <<"walker_0", "walker_1", "walker_2">>

Weights == [a \in {WrapperAgents[1], WrapperAgents[3]} |->
               IF a = WrapperAgents[1] THEN <<2, 6, 2>> ELSE <<1, 3, 6>>]

RewardVectors == [1..3 -> 0..MaxReward]

RECURSIVE Dot(_, _)
Dot(v, w) ==
    IF Len(v) = 0 THEN 0
    ELSE Head(v) * Head(w) + Dot(Tail(v), Tail(w))

\* A wrapper that adds the components up without the weights.
MutLinearize(rewards, weights) ==
    [a \in DOMAIN rewards |->
        IF a \in DOMAIN weights
        THEN rewards[a][1] + rewards[a][2] + rewards[a][3]
        ELSE rewards[a]]

\* The reward mapping the wrapper returns.
Linearize(rewards, weights) ==
    [a \in DOMAIN rewards |->
        IF a \in DOMAIN weights THEN Dot(rewards[a], weights[a])
        ELSE rewards[a]]

InitWrapper ==
    /\ NoInstance
    /\ implemented
    /\ \E S \in SUBSET Range(WrapperAgents) :
         \E r \in [S -> RewardVectors], t \in [S -> BOOLEAN],
            u \in [S -> BOOLEAN] :
            wrapped = [phase |-> "inner",
                       agents |-> SelectSeq(WrapperAgents,
                                            LAMBDA a : a \in S),
                       rewards |-> r, terminations |-> t, truncations |-> u]

\* The wrapper's step, after the step of the wrapped environment.
wrapper_step ==
    /\ wrapped.phase = "inner"
    /\ wrapped' = [phase |-> "wrapped",
                   agents |-> wrapped.agents,
                   rewards |-> wrapped.rewards,
                   terminations |-> wrapped.terminations,
                   truncations |-> wrapped.truncations,
                   out_agents |-> wrapped.agents,
                   out_rewards |-> Linearize(wrapped.rewards, Weights),
                   out_terminations |-> wrapped.terminations,
                   out_truncations |-> wrapped.truncations]
    /\ UNCHANGED <<render_mode, implemented, possible_agents, agents,
                   timestep, _agent_location, _previous_location,
                   _init_flying_pos, _init_target_location, _target_location,
                   _previous_target, window, display, lastOp, error, trace,
                   actions, terminations, space_cache, ret>>

NextWrapper == wrapper_step

SpecWrapper == InitWrapper /\ [][NextWrapper]_vars

----------------------------------------------------------------------------
\* Properties.

Returned(op) == lastOp = op /\ error = "none"

\* The events of the last call that are calls of hook h.
Calls(h) == {i \in DOMAIN trace : trace[i].ev = h}

\* The names of the events of the last call that are in the set hs, in order.
Names(hs) == SelectSeq([i \in DOMAIN trace |-> trace[i].ev],
                       LAMBDA e : e \in hs)

\* C1: after every reset(), timestep is 0 and agents is the full list of
\* possible agents, in the order given at construction.
C1_ResetTimestepAgents ==
    lastOp = "reset" =>
        /\ timestep = 0
        /\ agents = possible_agents
        /\ agents = AgentsNames

\* A reset in human mode that drew its frame.
C1_Witness ==
    /\ Returned("reset")
    /\ render_mode = "human"
    /\ Calls("frame") # {}
    /\ timestep = 0
    /\ agents = AgentsNames

\* C2: after every reset(), the current and previous positions are the
\* initial flying positions and the target and previous target are the
\* initial target locations, as given at construction.
C2_ResetRestoresPositions ==
    lastOp = "reset" =>
        /\ _agent_location = InitFlyingPos
        /\ _previous_location = InitFlyingPos
        /\ _target_location = TargetLocation
        /\ _previous_target = TargetLocation

\* A reset in human mode, the mode in which steps move the agents, that
\* comes after frames were drawn.
C2_Witness ==
    /\ lastOp = "reset"
    /\ render_mode = "human"
    /\ window = "Surface"
    /\ _agent_location = InitFlyingPos
    /\ _previous_location = InitFlyingPos

\* C3: a step() that returns increases timestep by exactly 1, reset() sets
\* it to 0, and render() and close() leave it alone.
C3_StepIncrementsTimestep ==
    [][/\ (lastOp' = "step" /\ error' = "none") => timestep' = timestep + 1
       /\ lastOp' = "reset" => timestep' = 0
       /\ lastOp' \in {"render", "close"} => timestep' = timestep]_vars

\* A second or later step has returned, with rendering off.
C3_Witness ==
    /\ Returned("step")
    /\ render_mode = "real"
    /\ timestep >= 2

\* C4: a step() whose action mapping does not hold exactly one entry per
\* active agent ends in an error.
C4_MalformedActionsRejected ==
    (lastOp = "step" /\ agents # <<>> /\ actions # Range(agents))
        => error # "none"

\* C5: close() never raises, in any render mode and in any lifecycle state;
\* it leaves the display released, and releases nothing when the display is
\* not initialised (no window was made, or an earlier close released it).
C5_CloseNeverFails ==
    [][lastOp' = "close" =>
          /\ error' = "none"
          /\ ~display'
          /\ (\E i \in DOMAIN trace' : trace'[i].ev = "release") <=> display
      ]_vars

\* A close in human mode, after a window was made, that found the display
\* already released by an earlier close.
C5_Witness ==
    /\ Returned("close")
    /\ render_mode = "human"
    /\ window = "Surface"
    /\ ~display
    /\ Calls("release") = {}

\* C6: an agent whose termination flag a returning step() reports true is no
\* longer in agents after that step.
C6_TerminatedAgentsRemoved ==
    Returned("step") => \A a \in terminations : a \notin Range(agents)

\* C7: the frame drawn during a step in human mode is drawn after that
\* step's transition and shows the positions the transition produced.
C7_FrameShowsNewPositions ==
    (Returned("step") /\ render_mode = "human") =>
        \A i \in Calls("frame") :
            /\ \E j \in Calls("transition") : j < i
            /\ trace[i].loc = _agent_location

\* C8: a step() that returns has run the hooks once each, as termination,
\* truncation, reward, observation, info, all after the transition of that
\* step if there was one, and each with the timestep and the positions the
\* step leaves.
C8_HookOrder ==
    Returned("step") =>
        /\ Names({"terminated", "truncation", "reward", "obs", "info"})
              = <<"terminated", "truncation", "reward", "obs", "info">>
        /\ \A i \in DOMAIN trace :
              trace[i].ev \in {"terminated", "truncation", "reward", "obs",
                               "info"}
                => /\ trace[i].ts = timestep
                   /\ trace[i].loc = _agent_location
                   /\ \A j \in Calls("transition") : j < i

\* A step in human mode that moved an agent and then ran the five hooks.
C8_Witness ==
    /\ Returned("step")
    /\ render_mode = "human"
    /\ _agent_location # _previous_location
    /\ Calls("transition") # {}
    /\ Calls("info") # {}

\* C9: after a step() that returns, the previous positions are the current
\* positions of just before the call, so they differ from the new ones
\* whenever the step moved an agent; render() and close() leave them alone.
C9_PreviousIsPriorStep ==
    [][/\ (lastOp' = "step" /\ error' = "none") =>
              /\ _previous_location' = _agent_location
              /\ (_agent_location' # _agent_location
                    => _previous_location' # _agent_location')
       /\ lastOp' \in {"render", "close"} =>
              _previous_location' = _previous_location]_vars

\* A step has moved an agent away from where it was before the step.
C9_Witness ==
    /\ Returned("step")
    /\ timestep >= 2
    /\ _previous_location # _agent_location
    /\ _previous_location # InitFlyingPos

\* C10: every step() that returns has called the transition function
\* exactly once, whatever the render mode.
C10_TransitionEveryStep ==
    Returned("step") => Cardinality(Calls("transition")) = 1

\* C11: the space accessors are memoized per agent: a stored value is never
\* replaced or dropped by any call; a call for an agent whose value is
\* stored returns that value without calling the hook; a call for an agent
\* with no stored value calls the hook once and stores what it returns.
C11_SpacesMemoized ==
    [][\A acc \in Accessors, a \in AgentSet :
          /\ space_cache[acc][a] # "none"
                => space_cache'[acc][a] = space_cache[acc][a]
          /\ (lastOp' = acc /\ ret'.agent = a /\ space_cache[acc][a] # "none")
                => /\ error' = "none"
                   /\ ret'.value = space_cache[acc][a]
                   /\ trace' = <<>>
          /\ (lastOp' = acc /\ ret'.agent = a /\ error' = "none"
                /\ space_cache[acc][a] = "none")
                => /\ Len(trace') = 1
                   /\ trace'[1].ev = HookOf(acc)
                   /\ ret'.value \in SpaceValues
                   /\ space_cache'[acc][a] = ret'.value
      ]_vars

\* A call answered from the cache, after steps, while the other agent of
\* the same accessor has a different value stored.
C11_Witness ==
    /\ Returned("observation_space")
    /\ timestep >= 1
    /\ trace = <<>>
    /\ ret = [agent |-> "agent_0", value |-> "space_a"]
    /\ space_cache["observation_space"]["agent_0"] = "space_a"
    /\ space_cache["observation_space"]["agent_1"] = "space_b"

\* C12: on the bare base class reset(), step(), state() and the three space
\* accessors each fail with NotImplementedError.
C12_BaseClassNotImplemented ==
    (~implemented
        /\ lastOp \in {"reset", "step", "state"} \cup Accessors)
        => error = "NotImplementedError"

\* C13: a construction with a render mode other than None, "human" and
\* "real" fails with the assertion of the constructor, so no instance with
\* another render mode exists, and none is ever reset, stepped, rendered or
\* closed.
C13_InvalidRenderModeRejected ==
    /\ render_mode \in {"unset", "None", "human", "real"}
    /\ lastOp \in {"reset", "step", "render", "close"}
          => render_mode \in {"None", "human", "real"}
    /\ error = "AssertionError" => lastOp = "__init__" /\ ~Available

\* A construction has failed on its assertion and left no instance.
C13_Witness ==
    /\ lastOp = "__init__"
    /\ error = "AssertionError"
    /\ render_mode = "unset"

\* C14: render() changes neither timestep, agents, positions nor targets;
\* with render mode None or "real" it draws nothing and makes no window;
\* with render mode "human" it draws exactly one frame.
C14_RenderEffect ==
    [][lastOp' = "render" =>
          /\ UNCHANGED <<timestep, agents, _agent_location,
                         _previous_location, _target_location,
                         _previous_target>>
          /\ render_mode \in {"None", "real"}
                => trace' = <<>> /\ UNCHANGED <<window, display>>
          /\ render_mode = "human"
                => /\ error' = "none"
                   /\ Cardinality({i \in DOMAIN trace' :
                                     trace'[i].ev = "frame"}) = 1
      ]_vars

\* C17: in human mode the window is made by the first frame draw and not
\* before, it is made at most once per call and only when there is none,
\* and no frame is drawn on a display that close() has released.
C17_NoDrawOnReleasedWindow ==
    /\ window = "None" => ~display
    /\ Cardinality(Calls("init_window")) <= 1
    /\ \A i \in Calls("frame") : window = "Surface" /\ display
    /\ Calls("frame_on_released") = {}
    /\ error # "pygame.error"

\* C15: the possible-agent list is the list given at construction in every
\* reachable state, and every active agent is a possible agent.
C15_PossibleAgentsFixed ==
    /\ possible_agents = AgentsNames
    /\ Range(agents) \subseteq Range(possible_agents)

\* Steps have run after a reset, with every agent active.
C15_Witness ==
    /\ Returned("step")
    /\ timestep >= 2
    /\ agents = AgentsNames
    /\ possible_agents = AgentsNames

\* C16: a step through the wrapper gives an agent of the weight mapping the
\* dot product of its reward vector and its weights, gives any other agent
\* its reward vector as it is, and passes the active agents and the
\* termination and truncation flags through.
C16_LinearizeReward ==
    wrapped.phase = "wrapped" =>
        /\ DOMAIN wrapped.out_rewards = DOMAIN wrapped.rewards
        /\ \A a \in DOMAIN wrapped.rewards :
              LET r == wrapped.rewards[a]
              IN IF a = "walker_0"
                 THEN wrapped.out_rewards[a] = 2 * r[1] + 6 * r[2] + 2 * r[3]
                 ELSE IF a = "walker_2"
                 THEN wrapped.out_rewards[a] = r[1] + 3 * r[2] + 6 * r[3]
                 ELSE wrapped.out_rewards[a] = r
        /\ wrapped.out_agents = wrapped.agents
        /\ wrapped.out_terminations = wrapped.terminations
        /\ wrapped.out_truncations = wrapped.truncations

\* A step with all three agents active, unequal reward components for a
\* weighted agent, and a terminated agent.
C16_Witness ==
    /\ wrapped.phase = "wrapped"
    /\ wrapped.agents = WrapperAgents
    /\ wrapped.rewards["walker_0"] = <<0, 1, 0>>
    /\ wrapped.out_rewards["walker_0"] = 6
    /\ wrapped.out_rewards["walker_1"] = wrapped.rewards["walker_1"]
    /\ wrapped.rewards["walker_1"] = <<1, 0, 1>>
    /\ wrapped.terminations["walker_2"]
====
